---------------------------- MODULE Spec2Model ----------------------------
(***************************************************************************)
(* Model of the interactive A/B-test line chart:                           *)
(*   - utils/dataProcessor (calculateConversionRate, processData,          *)
(*     aggregateByWeek, getVariationKey),                                  *)
(*   - components/Chart/Chart.tsx (view window, axis domain, zoom / pan /  *)
(*     selector handlers).                                                 *)
(*                                                                         *)
(* Number representation.  The program computes with IEEE doubles; the     *)
(* model computes with exact rationals:                                    *)
(*   - a value stored in a processed point is the result of                *)
(*     Number(x.toFixed(2)); it is represented by its count of hundredths  *)
(*     (25.00 is 2500);                                                    *)
(*   - the rate calculateConversionRate returns is a double: a record      *)
(*     [num, den, exp, excess] standing for num / den plus the error of    *)
(*     its two roundings (see DoubleQuotient, DoubleTimes); the unrounded  *)
(*     weekly mean is the exact quotient [num, den];                       *)
(*   - zoomLevel is counted in units of 1 / ZoomDen, axis-domain bounds in *)
(*     thousandths;                                                        *)
(*   - panOffset is a double that a mouse drag has computed with rounding: *)
(*     it is a multiple of 1 / PanDen plus a few units of 2^-53, and is    *)
(*     written as the integer units * UlpBase + ulps (see DoubleOf); the   *)
(*     order of these integers is the order of the doubles, and the        *)
(*     double 1.0 is PanOne.                                               *)
(* toFixed(2) rounds the exact value of the double to the nearest          *)
(* hundredth.  When the rational lies strictly between two half-way points *)
(* the double's error (about 1e-13) cannot change the result.  When the    *)
(* rational is exactly half-way the result depends on the sign of the      *)
(* double's error: the rate carries it; for the weekly mean this model     *)
(* does not compute it, both neighbours are possible outcomes and the      *)
(* model keeps both.                                                       *)
(***************************************************************************)
EXTENDS Integers, Sequences, FiniteSets, TLC

VARIABLES
    \* ---- Chart component state (Chart.tsx 74-84, 206-208) ----
    data,                \* the ChartData prop
    selectedVariations,  \* sequence of variation keys
    timeRange,           \* "day" | "week"
    lineStyle,           \* "line" | "smooth" | "area"
    zoomLevel,           \* units of 1 / ZoomDen
    panOffset,           \* a double, see DoubleOf; 1.0 is PanOne
    isPanning,
    isDraggingSlider,
    panStart,            \* clientX of the last mouse event of a drag
    processedData,       \* the memoised processData(data, selectedVariations, timeRange)
    \* ---- direct calls of the pure functions ----
    fn,                  \* the function a direct call is about ("ui" in the component)
    args,                \* its arguments
    ret                  \* its result, NoRet before the call

vars == << data, selectedVariations, timeRange, lineStyle, zoomLevel, panOffset,
           isPanning, isDraggingSlider, panStart, processedData, fn, args, ret >>

uiVars == << data, selectedVariations, timeRange, lineStyle, zoomLevel, panOffset,
             isPanning, isDraggingSlider, panStart, processedData >>

callVars == << fn, args, ret >>

\* ret is << >> before the call and << result >> after it.
NoRet == << >>
Null == "null"
\* visibleDataRange's null
NullRange == << >>

(***************************************************************************)
(* Bounds of the model.                                                    *)
(***************************************************************************)
MaxDays == 3          \* longest raw series given to processData directly
MaxWeekDays == 10     \* longest raw series of the weekly-aggregation calls
MaxLen == 12          \* longest series length given to the view window
ZoomRes == 2          \* zoomLevel is counted in units of 1 / 2^ZoomRes: the slider
                      \* reaches levels between the half steps of the buttons
PanRes == 1           \* panOffset is counted in units of 1 / 2^PanRes
MaxCount == 3         \* largest visits / conversions count of a raw record
MaxRateCount == 12    \* largest count given to calculateConversionRate directly

ZoomDen == 2 ^ ZoomRes
PanDen == 2 ^ PanRes
MaxUlps == 64         \* room for the rounding residue of a panOffset, in units of 2^-53

Min2(a, b) == IF a < b THEN a ELSE b
Max2(a, b) == IF a > b THEN a ELSE b

RECURSIVE SeqSum(_)
SeqSum(s) == IF s = << >> THEN 0 ELSE Head(s) + SeqSum(Tail(s))

SetMin(S) == CHOOSE x \in S : \A y \in S : x <= y
SetMax(S) == CHOOSE x \in S : \A y \in S : x >= y

(***************************************************************************)
(* types.ts                                                                *)
(***************************************************************************)
TimeRanges == {"day", "week"}
LineStyles == {"line", "smooth", "area"}

(***************************************************************************)
(* utils/dataProcessor                                                     *)
(***************************************************************************)

\* variation.id?.toString() || '0'
getVariationKey(variation) ==
    IF "id" \in DOMAIN variation THEN ToString(variation.id) ELSE "0"

(***************************************************************************)
(* IEEE double division and multiplication of small integers.  A double    *)
(* that is the rounded value of a quotient num / den is written            *)
(* [num, den, exp, excess]: it is exactly                                  *)
(*     num / den + excess / (den * 2^(52 - exp)).                          *)
(***************************************************************************)
\* The exponent e of the binade of X / W: 2^e <= X / W < 2^(e + 1), for
\* X, W > 0.
RECURSIVE FloorLog2(_, _)
FloorLog2(X, W) ==
    IF X >= 2 * W THEN FloorLog2(X, 2 * W) + 1
    ELSE IF X < W THEN FloorLog2(2 * X, W) - 1
    ELSE 0

\* X / W = 2^e
IsPow2Times(X, W, e) == IF e >= 0 THEN X = W * 2 ^ e ELSE X * 2 ^ (-e) = W

\* (x * 2^k) mod M, eight doublings at a time (256 * M stays below 2^31)
RECURSIVE Doublings(_, _, _)
Doublings(x, k, M) ==
    IF k >= 8 THEN Doublings((256 * (x % M)) % M, k - 8, M)
    ELSE (2 ^ k * (x % M)) % M

\* m / W for integers m >= 0, W > 0, rounded to the nearest double (53
\* significant bits, ties to even): conversions / visits (part_000:5) and
\* maxOffset / chartWidth (Chart.tsx:250).  With e the binade of m / W and
\* k = 52 - e the double is (m * 2^k + excess) / (W * 2^k), where excess is
\* what rounding m * 2^k / W to an integer adds to its numerator.
DoubleQuotient(m, W) ==
    IF m = 0 THEN [num |-> 0, den |-> W, exp |-> 0, excess |-> 0]
    ELSE LET e  == FloorLog2(m, W)
             r2 == Doublings(m, 52 - e, 2 * W)
             r  == r2 % W
             roundUp == 2 * r > W \/ (2 * r = W /\ r2 >= W)
         IN  [num |-> m, den |-> W, exp |-> e,
              excess |-> IF roundUp THEN W - r ELSE -r]

\* D * ratio for an integer D > 0 and a double ratio > 0, rounded to the
\* nearest double: (conversions / visits) * 100 (part_000:5) and
\* |delta| * pixelToDataRatio (Chart.tsx:251).  The exact product is
\* (X * 2^k + L) / (W * 2^k) with X = D * num, L = D * excess and
\* k = 52 - ratio.exp; its ulp is 2^(e - 52) for its binade e, and the
\* rounding takes the remainder of the numerator modulo
\* M = W * 2^(k + e - 52) to the nearer side.  The result is
\* X / W + excess' / (W * 2^k), with the exp field of the ratio kept.
DoubleTimes(D, ratio) ==
    LET W    == ratio.den
        k    == 52 - ratio.exp
        X    == D * ratio.num
        L    == D * ratio.excess
        e0   == FloorLog2(X, W)
        e    == IF IsPow2Times(X, W, e0) /\ L < 0 THEN e0 - 1 ELSE e0
        M    == W * 2 ^ (e - ratio.exp)
        R2   == (Doublings(X, k, 2 * M) + L) % (2 * M)
        R    == R2 % M
        roundUp == 2 * R > M \/ (2 * R = M /\ R2 >= M)
    IN  [num |-> X, den |-> W, exp |-> ratio.exp,
         excess |-> L - (IF roundUp THEN R - M ELSE R)]

\* Mutant of CountOrZero: "|| 1" in place of "|| 0".
CountOrOne(mapping, key) ==
    IF key \in DOMAIN mapping /\ mapping[key] # 0 THEN mapping[key] ELSE 1

\* dataPoint.visits[variationKey] || 0 : a missing key (undefined) and a zero
\* count both give 0.
CountOrZero(mapping, key) ==
    IF key \in DOMAIN mapping /\ mapping[key] # 0 THEN mapping[key] ELSE 0

\* Lines 3-6: the unrounded percentage, the double (conversions / visits) * 100
\* with the rounding of its division and of its multiplication.
RateDouble(conversions, visits) ==
    IF visits = 0 THEN [num |-> 0, den |-> 1, exp |-> 0, excess |-> 0]
    ELSE IF conversions = 0 THEN [num |-> 0, den |-> visits, exp |-> 0, excess |-> 0]
    ELSE DoubleTimes(100, DoubleQuotient(conversions, visits))

\* The values of the function on small counts, computed once: processData
\* calls it for every record and key each time the chart recomputes.
RateTable ==
    [conversions \in 0..MaxRateCount |->
        [visits \in 0..MaxRateCount |-> RateDouble(conversions, visits)]]

\* Lines 3-6, calculateConversionRate: a pure function, read from RateTable
\* where the table has its arguments.
calculateConversionRate(conversions, visits) ==
    IF conversions \in 0..MaxRateCount /\ visits \in 0..MaxRateCount
    THEN RateTable[conversions][visits]
    ELSE RateDouble(conversions, visits)

\* Number(x.toFixed(2)) for a double x >= 0 near q.num / q.den: the hundredths
\* nearest to x.  When q.num / q.den is exactly half-way between two
\* hundredths the excess of the double decides (toFixed takes the larger
\* neighbour of a double that is itself half-way); where the excess is not
\* computed (the weekly mean) both neighbours are kept.
toFixed2(q) ==
    LET scaled == q.num * 100
        lo     == scaled \div q.den
        r2     == 2 * (scaled % q.den)
    IN  IF r2 < q.den THEN {lo}
        ELSE IF r2 > q.den THEN {lo + 1}
        ELSE IF "excess" \in DOMAIN q THEN (IF q.excess < 0 THEN {lo} ELSE {lo + 1})
        ELSE {lo, lo + 1}

\* isNaN(value) || !isFinite(value) ? 0 : value.  Every value the model
\* builds is a finite number, so the guard keeps it.
FiniteOrZero(value) == value

\* Lines 20-27 of processData for one record and one key: the values the
\* point can hold under that key.
RateValues(dataPoint, variationKey) ==
    LET visits      == CountOrZero(dataPoint.visits, variationKey)
        conversions == CountOrZero(dataPoint.conversions, variationKey)
        conversionRate == calculateConversionRate(conversions, visits)
    IN  { FiniteOrZero(value) : value \in toFixed2(conversionRate) }

\* The set of keys a sequence of keys assigns (a key repeated in
\* selectedVariations is assigned twice to the same property).
KeySet(keys) == { keys[i] : i \in 1..Len(keys) }

\* The functions that pick one element of cands[k] for every k.
Choices(cands) ==
    LET all == UNION { cands[k] : k \in DOMAIN cands }
    IN  { f \in [DOMAIN cands -> all] : \A k \in DOMAIN cands : f[k] \in cands[k] }

\* Lines 16-29: the points processData can build for one record.
DayPoints(dataPoint, selected) ==
    { [date |-> dataPoint.date, vals |-> f] :
        f \in Choices([k \in KeySet(selected) |-> RateValues(dataPoint, k)]) }

\* Lines 13-30: chartData.data.forEach, in input order.
RECURSIVE DaySeries(_, _)
DaySeries(series, selected) ==
    IF series = << >> THEN { << >> }
    ELSE { << p >> \o rest : p \in DayPoints(Head(series), selected),
                             rest \in DaySeries(Tail(series), selected) }

\* Mutant of weekGroups: a last chunk of fewer than 7 points is dropped.
RECURSIVE weekGroupsFullOnly(_)
weekGroupsFullOnly(points) ==
    IF Len(points) < 7 THEN << >>
    ELSE << SubSeq(points, 1, 7) >> \o weekGroupsFullOnly(SubSeq(points, 8, Len(points)))

\* Lines 44-49: for (i = 0; i < data.length; i += 7) data.slice(i, i + 7).
RECURSIVE weekGroups(_)
weekGroups(points) ==
    IF points = << >> THEN << >>
    ELSE << SubSeq(points, 1, Min2(7, Len(points))) >>
         \o weekGroups(SubSeq(points, 8, Len(points)))

\* Lines 55-57: the label of a chunk.
WeekLabel(week) ==
    IF Len(week) = 1 THEN week[1].date
    ELSE week[1].date \o " - " \o week[Len(week)].date

\* Mutant of WeekValues: the sum is divided by 7, not by the number of values.
WeekValuesOverSeven(week, key) ==
    LET present == SelectSeq(week, LAMBDA point : key \in DOMAIN point.vals)
        values  == [i \in 1..Len(present) |-> present[i].vals[key]]
    IN  toFixed2([num |-> SeqSum(values), den |-> 100 * 7])

\* Lines 63-70 for one key of a chunk: the mean of the values present, 0 when
\* there are none, then toFixed(2).
WeekValues(week, key) ==
    LET present == SelectSeq(week, LAMBDA point : key \in DOMAIN point.vals)
        values  == [i \in 1..Len(present) |-> present[i].vals[key]]
        average == IF Len(values) > 0
                   THEN [num |-> SeqSum(values), den |-> 100 * Len(values)]
                   ELSE [num |-> 0, den |-> 1]
    IN  { FiniteOrZero(value) : value \in toFixed2(average) }

\* Lines 51-74 for one chunk: the weekly points it can give.
WeekPoints(week) ==
    LET variationKeys == DOMAIN week[1].vals
    IN  { [date |-> WeekLabel(week), vals |-> f] :
            f \in Choices([k \in variationKeys |-> WeekValues(week, k)]) }

RECURSIVE WeekSeries(_)
WeekSeries(groups) ==
    IF groups = << >> THEN { << >> }
    ELSE { << p >> \o rest : p \in WeekPoints(Head(groups)),
                             rest \in WeekSeries(Tail(groups)) }

aggregateByWeek(points) == WeekSeries(weekGroups(points))

\* Mutant of processData: nothing is returned when no key is selected.
processDataSkippingKeyless(chartData, selected, range) ==
    IF selected = << >> THEN { << >> }
    ELSE IF range = "week"
    THEN UNION { aggregateByWeek(days) : days \in DaySeries(chartData.data, selected) }
    ELSE DaySeries(chartData.data, selected)

\* The results processData can return (one, unless a toFixed is exactly
\* half-way).
processData(chartData, selected, range) ==
    IF range = "week"
    THEN UNION { aggregateByWeek(days) : days \in DaySeries(chartData.data, selected) }
    ELSE DaySeries(chartData.data, selected)

(***************************************************************************)
(* Inputs of the direct calls.                                             *)
(***************************************************************************)
Keys == {"0", "1"}
DateOf(i) == "day" \o ToString(i)

\* A visits / conversions mapping: any subset of the keys, any count.
CountMaps == UNION { [D -> 0..MaxCount] : D \in SUBSET Keys }

SampleA(i) == [date |-> DateOf(i), visits |-> [k \in {"0"} |-> 4],
               conversions |-> [k \in {"0"} |-> 1]]
SampleB(i) == [date |-> DateOf(i), visits |-> [k \in Keys |-> 3],
               conversions |-> [k \in Keys |-> IF k = "0" THEN 1 ELSE 2]]
SampleRecord(i) == IF i % 2 = 0 THEN SampleA(i) ELSE SampleB(i)

Variations == << [name |-> "Original"], [id |-> 1, name |-> "Variation A"] >>

\* Series of the processData calls: any first record, then sample records.
ProcessSeries ==
    { << >> } \cup
    { [i \in 1..n |-> IF i = 1 THEN [date |-> DateOf(1), visits |-> v, conversions |-> c]
                      ELSE SampleRecord(i)] :
        n \in 1..MaxDays, v \in CountMaps, c \in CountMaps }

SelectedInputs == { << >>, << "0" >>, << "1" >>, << "0", "1" >> }

Unmounted ==
    /\ data = Null /\ selectedVariations = Null /\ timeRange = Null
    /\ lineStyle = Null /\ zoomLevel = Null /\ panOffset = Null
    /\ isPanning = Null /\ isDraggingSlider = Null /\ panStart = Null
    /\ processedData = Null

(***************************************************************************)
(* Direct calls of processData on short series of arbitrary records.       *)
(***************************************************************************)
InitProcess ==
    /\ Unmounted
    /\ fn = "processData"
    /\ args \in [chartData : { [variations |-> Variations, data |-> s] : s \in ProcessSeries },
                 selected : SelectedInputs,
                 range : TimeRanges]
    /\ ret = NoRet

CallProcessData ==
    /\ fn = "processData"
    /\ ret = NoRet
    /\ ret' \in { << r >> : r \in processData(args.chartData, args.selected, args.range) }
    /\ UNCHANGED << fn, args >>
    /\ UNCHANGED uiVars

SpecProcess == InitProcess /\ [][CallProcessData]_vars

(***************************************************************************)
(* Direct calls of calculateConversionRate.                                *)
(***************************************************************************)
InitRate ==
    /\ Unmounted
    /\ fn = "calculateConversionRate"
    /\ args \in [conversions : 0..MaxRateCount, visits : 0..MaxRateCount]
    /\ ret = NoRet

CallCalculateConversionRate ==
    /\ fn = "calculateConversionRate"
    /\ ret = NoRet
    /\ ret' = << calculateConversionRate(args.conversions, args.visits) >>
    /\ UNCHANGED << fn, args >>
    /\ UNCHANGED uiVars

SpecRate == InitRate /\ [][CallCalculateConversionRate]_vars

(***************************************************************************)
(* Direct calls of processData(.., 'week') on longer series of the two     *)
(* sample records.                                                         *)
(***************************************************************************)
WeekSeriesInputs ==
    { [i \in 1..n |-> IF pick[i] THEN SampleA(i) ELSE SampleB(i)] :
        n \in 0..MaxWeekDays, pick \in [1..MaxWeekDays -> BOOLEAN] }

InitWeek ==
    /\ Unmounted
    /\ fn = "processData"
    /\ args \in [chartData : { [variations |-> Variations, data |-> s] : s \in WeekSeriesInputs },
                 selected : { << "0", "1" >>, << "1" >> },
                 range : {"week"}]
    /\ ret = NoRet

SpecWeek == InitWeek /\ [][CallProcessData]_vars


(***************************************************************************)
(* components/Chart/Chart.tsx: the derived values                          *)
(***************************************************************************)

\* Array.prototype.slice(from, to) on a sequence (indices from 0, a negative
\* index counts from the end).
Slice(s, from, to) ==
    LET rel(i) == IF i < 0 THEN Max2(Len(s) + i, 0) ELSE Min2(i, Len(s))
    IN  SubSeq(s, rel(from) + 1, rel(to))

(***************************************************************************)
(* The IEEE double arithmetic of the pan drag (lines 250-251).  Every      *)
(* double it meets is a multiple of 1 / PanDen plus a small multiple of    *)
(* 2^-53 (the mouse moves by multiples of ChartWidth / PanDen and the      *)
(* products are at least 1/2 in magnitude): DoubleOf(units, ulps) stands   *)
(* for units / PanDen + ulps * 2^-53, with |ulps| <= MaxUlps.              *)
(***************************************************************************)
UlpBase == 2 * MaxUlps + 1
PanOne == PanDen * UlpBase
DoubleOf(units, ulps) == units * UlpBase + ulps
UnitsOf(d) == (d + MaxUlps) \div UlpBase
UlpsOf(d) == d - UnitsOf(d) * UlpBase

\* Line 251: delta * pixelToDataRatio, rounded to the nearest double, as
\* units of 1 / PanDen and units of 2^-53 (the product is a multiple of
\* 1 / PanDen plus a multiple of 2^-53).
DoubleProduct(delta, ratio) ==
    IF delta = 0 \/ ratio.num = 0 THEN DoubleOf(0, 0)
    ELSE LET D    == IF delta < 0 THEN -delta ELSE delta
             sign == IF delta < 0 THEN -1 ELSE 1
             p    == DoubleTimes(D, ratio)
             k    == 52 - p.exp
         IN  DoubleOf(sign * ((p.num * PanDen) \div p.den),
                      sign * (p.excess \div (p.den * 2 ^ (k - 53))))

\* Line 251: a + b, rounded to the nearest double.  In the binade j of the
\* exact sum the ulp is 2^(j - 52), that is 2^(j + 1) units of 2^-53; below
\* 1/2 every multiple of 2^-53 is a double.
DoubleSum(a, b) ==
    LET U    == UnitsOf(a) + UnitsOf(b)
        T    == UlpsOf(a) + UlpsOf(b)
        sign == IF U < 0 THEN -1 ELSE 1
        A    == sign * U
        Ts   == sign * T
        j0   == FloorLog2(A, PanDen)
        j    == IF IsPow2Times(A, PanDen, j0) /\ Ts < 0 THEN j0 - 1 ELSE j0
        g    == 2 ^ (j + 1)
        lo   == Ts \div g
        rem  == Ts - lo * g
        roundUp == 2 * rem > g \/ (2 * rem = g /\ lo % 2 = 1)
    IN  IF U = 0 THEN DoubleOf(U, T)
        ELSE IF j + 1 <= 0 THEN DoubleOf(U, T)
        ELSE DoubleOf(U, sign * (IF roundUp THEN lo + 1 ELSE lo) * g)

\* Math.floor(totalPoints / zoomLevel), zoomLevel in units of 1 / ZoomDen.
FloorDivZoom(totalPoints, zoom) == (totalPoints * ZoomDen) \div zoom

\* Mutant of visibleDataRange: the offset is not clamped to maxOffset.
visibleDataRangeNoUpperClamp(totalPoints, zoom, pan) ==
    IF zoom <= ZoomDen THEN NullRange
    ELSE LET visiblePoints == FloorDivZoom(totalPoints, zoom)
             clampedOffset == Max2(0, pan)
             startIndex    == clampedOffset \div PanOne
             endIndex      == Min2(startIndex + visiblePoints - 1, totalPoints - 1)
         IN  << startIndex, endIndex >>

\* Mutant of visibleDataRange: the window ends one point later.
visibleDataRangeOnePointMore(totalPoints, zoom, pan) ==
    IF zoom <= ZoomDen THEN NullRange
    ELSE LET visiblePoints == FloorDivZoom(totalPoints, zoom)
             maxOffset     == Max2(0, totalPoints - visiblePoints)
             clampedOffset == Max2(0, Min2(pan, maxOffset * PanOne))
             startIndex    == clampedOffset \div PanOne
             endIndex      == Min2(startIndex + visiblePoints, totalPoints - 1)
         IN  << startIndex, endIndex >>

\* Lines 92-106.  NullRange when zoomLevel <= 1, else << startIndex, endIndex >>.
visibleDataRange(totalPoints, zoom, pan) ==
    IF zoom <= ZoomDen THEN NullRange
    ELSE LET visiblePoints == FloorDivZoom(totalPoints, zoom)
             maxOffset     == Max2(0, totalPoints - visiblePoints)
             clampedOffset == Max2(0, Min2(pan, maxOffset * PanOne))
             startIndex    == clampedOffset \div PanOne
             endIndex      == Min2(startIndex + visiblePoints - 1, totalPoints - 1)
         IN  << startIndex, endIndex >>

\* Mutant of dataToUse: the slice stops before endIndex.
dataToUseWithoutLast(processed, range) ==
    IF range # NullRange THEN Slice(processed, range[1], range[2]) ELSE processed

\* Lines 110-112.
dataToUse(processed, range) ==
    IF range # NullRange THEN Slice(processed, range[1], range[2] + 1) ELSE processed

\* Lines 114-121: the finite values of the selected keys (as a set: only the
\* emptiness, the minimum and the maximum of allValues are read).
allValues(points, selected) ==
    UNION { { points[i].vals[k] : k \in KeySet(selected) \cap DOMAIN points[i].vals } :
              i \in 1..Len(points) }

Hundred == 100      \* the default upper bound of the axis (line 123)
One == 1000         \* the number 1 of lines 156-161, in thousandths
OfValue(hundredths) == 10 * hundredths

\* Mutant of EmptyDomain: 'smooth' keeps its -5 lower bound when nothing is
\* plotted.
EmptyDomainWithSag(style) ==
    IF style = "smooth" THEN << -5 * One, Hundred * One >> ELSE << 0, Hundred * One >>

\* Line 123: if (allValues.length === 0) return [0, 100].
EmptyDomain(style) == << 0, Hundred * One >>

\* Mutant of PaddedDomain: every mode takes the lower bound of 'smooth'.
PaddedDomainSagging(values, style) ==
    LET min == SetMin(values)
        max == SetMax(values)
        range == max - min
        isSmoothMode == style = "smooth"
        top0 == IF range > 0 THEN (IF isSmoothMode THEN range * 2 ELSE range)
                ELSE IF max > 0 THEN (IF isSmoothMode THEN max * 2 ELSE max)
                ELSE One
        bottom0 == IF range > 0 THEN range
                   ELSE IF max > 0 THEN max
                   ELSE One
        paddingTop    == IF top0 < One THEN One ELSE top0
        paddingBottom == IF bottom0 < One THEN One ELSE bottom0
        minDomain == Max2(-5 * One, OfValue(min) - paddingBottom - 5 * One)
        maxDomain == OfValue(max) + paddingTop
    IN  << minDomain, maxDomain >>

\* Mutant of PaddedDomain: the padding above is 10 % in 'smooth' mode too.
PaddedDomainEvenPadding(values, style) ==
    LET min == SetMin(values)
        max == SetMax(values)
        range == max - min
        isSmoothMode == style = "smooth"
        top0 == IF range > 0 THEN range
                ELSE IF max > 0 THEN max
                ELSE One
        bottom0 == IF range > 0 THEN range
                   ELSE IF max > 0 THEN max
                   ELSE One
        paddingTop    == IF top0 < One THEN One ELSE top0
        paddingBottom == IF bottom0 < One THEN One ELSE bottom0
        minDomain == IF isSmoothMode
                     THEN Max2(-5 * One, OfValue(min) - paddingBottom - 5 * One)
                     ELSE Max2(0, OfValue(min) - paddingBottom)
        maxDomain == OfValue(max) + paddingTop
    IN  << minDomain, maxDomain >>

\* Lines 125-176 for a non-empty allValues, in thousandths: range * 0.1 is
\* range (hundredths) thousandths, range * 0.2 is 2 * range thousandths.  min
\* and max are finite, so are minDomain and maxDomain: the fallbacks of lines
\* 129-131 and 169-174 are not taken.
PaddedDomain(values, style) ==
    LET min == SetMin(values)
        max == SetMax(values)
        range == max - min
        isSmoothMode == style = "smooth"
        top0 == IF range > 0 THEN (IF isSmoothMode THEN range * 2 ELSE range)
                ELSE IF max > 0 THEN (IF isSmoothMode THEN max * 2 ELSE max)
                ELSE One
        bottom0 == IF range > 0 THEN range
                   ELSE IF max > 0 THEN max
                   ELSE One
        paddingTop    == IF top0 < One THEN One ELSE top0
        paddingBottom == IF bottom0 < One THEN One ELSE bottom0
        minDomain == IF isSmoothMode
                     THEN Max2(-5 * One, OfValue(min) - paddingBottom - 5 * One)
                     ELSE Max2(0, OfValue(min) - paddingBottom)
        maxDomain == OfValue(max) + paddingTop
    IN  << minDomain, maxDomain >>

\* Lines 123-176.
DomainOf(values, style) ==
    IF values = {} THEN EmptyDomain(style) ELSE PaddedDomain(values, style)

\* Mutant of yAxisDomain: the pair is returned in the wrong order.
yAxisDomainSwapped(processed, selected, range, style) ==
    LET d == DomainOf(allValues(dataToUse(processed, range), selected), style)
    IN  << d[2], d[1] >>

\* Lines 108-177: << finalMin, finalMax >>.
yAxisDomain(processed, selected, range, style) ==
    DomainOf(allValues(dataToUse(processed, range), selected), style)

\* Lines 350-369: the points handed to the chart.  The slice is taken when the
\* range lies inside the series; points without a date are dropped; every
\* selected key gets its value, 0 when the point has none.
displayData(processed, range, selected) ==
    LET sliced == IF range # NullRange /\ range[1] >= 0 /\ range[2] < Len(processed)
                  THEN Slice(processed, range[1], range[2] + 1)
                  ELSE processed
        dated  == SelectSeq(sliced, LAMBDA point : point.date # "")
    IN  [i \in 1..Len(dated) |->
            [date |-> dated[i].date,
             vals |-> [k \in KeySet(selected) |->
                          IF k \in DOMAIN dated[i].vals THEN dated[i].vals[k] ELSE 0]]]

(***************************************************************************)
(* Direct calls of the view window.                                        *)
(***************************************************************************)
FarAway == 1000     \* the far pan offset of the specification's example
ExampleLen == 100   \* the series length of the specification's example

\* multiples of 1 / PanDen and their neighbours one unit of 2^-53 away
PanInputs == { DoubleOf(units, ulps) : units \in (-2 * PanDen)..((MaxLen + 1) * PanDen),
                                       ulps \in {-1, 0, 1} }
             \cup { -FarAway * PanOne, FarAway * PanOne }

InitWindow ==
    /\ Unmounted
    /\ fn = "visibleDataRange"
    /\ args \in [totalPoints : (0..MaxLen) \cup {ExampleLen},
                 zoomLevel : ZoomDen..(5 * ZoomDen),
                 panOffset : PanInputs]
    /\ ret = NoRet

CallVisibleDataRange ==
    /\ fn = "visibleDataRange"
    /\ ret = NoRet
    /\ ret' = << visibleDataRange(args.totalPoints, args.zoomLevel, args.panOffset) >>
    /\ UNCHANGED << fn, args >>
    /\ UNCHANGED uiVars

SpecWindow == InitWindow /\ [][CallVisibleDataRange]_vars

(***************************************************************************)
(* Direct calls of the axis domain.                                        *)
(***************************************************************************)
MaxPoints == 3      \* longest processed series given to yAxisDomain

DomainValues == {0, 1000, 1005, 2000, 3000}

DomainPoint(i, v) == [date |-> DateOf(i), vals |-> [k \in Keys |-> IF k = "0" THEN v ELSE 5]]

DomainSeries ==
    { [i \in 1..n |-> DomainPoint(i, v[i])] :
        n \in 0..MaxPoints, v \in [1..MaxPoints -> DomainValues] }

\* null, or an index pair the view window can give for a series of length n
\* (an empty window << a, a - 1 >> included).
RangesFor(n) ==
    { NullRange } \cup { << a, b >> : a \in 0..n, b \in (-1)..(n - 1) }

InitDomain ==
    /\ Unmounted
    /\ fn = "yAxisDomain"
    /\ \E processed \in DomainSeries, selected \in SelectedInputs, style \in LineStyles :
         \E range \in { r \in RangesFor(Len(processed)) : r = NullRange \/ r[2] >= r[1] - 1 } :
            args = [processedData |-> processed, selected |-> selected,
                    range |-> range, lineStyle |-> style]
    /\ ret = NoRet

CallYAxisDomain ==
    /\ fn = "yAxisDomain"
    /\ ret = NoRet
    /\ ret' = << yAxisDomain(args.processedData, args.selected, args.range, args.lineStyle) >>
    /\ UNCHANGED << fn, args >>
    /\ UNCHANGED uiVars

SpecDomain == InitDomain /\ [][CallYAxisDomain]_vars

(***************************************************************************)
(* components/Chart/Chart.tsx: the component                               *)
(***************************************************************************)
MaxUiDays == 9      \* longest raw series mounted in the component
ChartWidth == 800   \* the width used when the chart wrapper has none

UiLens == {0, 2, MaxUiDays}

\* The datasets the component is mounted with: sample records, two variations.
UiDatas ==
    { [variations |-> Variations, data |-> [i \in 1..n |-> SampleRecord(i)]] : n \in UiLens }

\* Mouse positions (clientX), in pixels: the left edge, the middle and the
\* right edge of a chart of the default width.
MouseXs == { 0, ChartWidth \div 2, ChartWidth }

\* Slider positions clickX / rect.width (before clamping), in units of
\* 1 / (4 * ZoomDen): around the left end, the middle and the right end of
\* the track, one step outside it on either side.
SliderSteps == { -1, 0, 1, 2 * ZoomDen, 4 * ZoomDen - 1, 4 * ZoomDen, 4 * ZoomDen + 1 }

\* data.variations.map(v => getVariationKey(v))
AllKeys(chartData) ==
    [i \in 1..Len(chartData.variations) |-> getVariationKey(chartData.variations[i])]

\* Lines 380-384: the value the variations <select> shows.
VariationsSelectValue ==
    IF Len(selectedVariations) = Len(data.variations) THEN "all"
    ELSE IF selectedVariations # << >> THEN selectedVariations[1] ELSE "all"

\* Lines 395-403: the options of the variations <select>.
VariationOptions == {"all"} \cup KeySet(AllKeys(data))

\* Lines 74-84, 206-208: the state after the first render.
Init ==
    /\ data \in UiDatas
    /\ selectedVariations = AllKeys(data)
    /\ timeRange = "day"
    /\ lineStyle = "line"
    /\ zoomLevel = ZoomDen
    /\ panOffset = 0
    /\ isPanning = FALSE
    /\ isDraggingSlider = FALSE
    /\ panStart = 0
    /\ processedData \in processData(data, selectedVariations, timeRange)
    /\ fn = "ui" /\ args = << >> /\ ret = NoRet

\* Mutant of NextSelection: 'all' clears the selection (no filter) instead of
\* listing every key.
NextSelectionAllClears(value) ==
    IF value = "all" THEN << >> ELSE << value >>

\* Lines 386-392: the selection the variations <select> sets.
NextSelection(value) ==
    IF value = "all" THEN AllKeys(data) ELSE << value >>

\* Lines 385-393: the variations <select> changes to `value`; lines 86-89
\* recompute processedData.
variationsSelectOnChange(value) ==
    /\ value # VariationsSelectValue
    /\ selectedVariations' = NextSelection(value)
    /\ processedData' \in processData(data, selectedVariations', timeRange)
    /\ UNCHANGED << data, timeRange, lineStyle, zoomLevel, panOffset, isPanning,
                    isDraggingSlider, panStart >>
    /\ UNCHANGED callVars

\* Line 410: the Day / Week <select> changes; lines 86-89 recompute
\* processedData.
timeRangeSelectOnChange(value) ==
    /\ value # timeRange
    /\ timeRange' = value
    /\ processedData' \in processData(data, selectedVariations, timeRange')
    /\ UNCHANGED << data, selectedVariations, lineStyle, zoomLevel, panOffset, isPanning,
                    isDraggingSlider, panStart >>
    /\ UNCHANGED callVars

\* Lines 423-426.
lineStyleSelectOnChange(value) ==
    /\ value # lineStyle
    /\ lineStyle' = value
    /\ UNCHANGED << data, selectedVariations, timeRange, zoomLevel, panOffset, isPanning,
                    isDraggingSlider, panStart, processedData >>
    /\ UNCHANGED callVars

\* Mutant of handleZoomIn: the new level is stored without its cap at 5.
handleZoomInUncapped ==
    /\ ~(zoomLevel >= 5 * ZoomDen)
    /\ zoomLevel' = zoomLevel + ZoomDen \div 2
    /\ panOffset' = 0
    /\ UNCHANGED << data, selectedVariations, timeRange, lineStyle, isPanning,
                    isDraggingSlider, panStart, processedData >>
    /\ UNCHANGED callVars

\* Lines 185-188; the button is disabled at zoomLevel >= 5 (line 527).
handleZoomIn ==
    /\ ~(zoomLevel >= 5 * ZoomDen)
    /\ zoomLevel' = Min2(zoomLevel + ZoomDen \div 2, 5 * ZoomDen)
    /\ panOffset' = 0
    /\ UNCHANGED << data, selectedVariations, timeRange, lineStyle, isPanning,
                    isDraggingSlider, panStart, processedData >>
    /\ UNCHANGED callVars

\* Mutant of handleZoomOut: panOffset is kept when the level reaches 1.
handleZoomOutKeepingPan ==
    /\ ~(zoomLevel <= ZoomDen)
    /\ LET newLevel == Max2(zoomLevel - ZoomDen \div 2, ZoomDen)
       IN  /\ zoomLevel' = newLevel
           /\ panOffset' = panOffset
    /\ UNCHANGED << data, selectedVariations, timeRange, lineStyle, isPanning,
                    isDraggingSlider, panStart, processedData >>
    /\ UNCHANGED callVars

\* Lines 190-198; the button is disabled at zoomLevel <= 1 (line 492).
handleZoomOut ==
    /\ ~(zoomLevel <= ZoomDen)
    /\ LET newLevel == Max2(zoomLevel - ZoomDen \div 2, ZoomDen)
       IN  /\ zoomLevel' = newLevel
           /\ panOffset' = IF newLevel = ZoomDen THEN 0 ELSE panOffset
    /\ UNCHANGED << data, selectedVariations, timeRange, lineStyle, isPanning,
                    isDraggingSlider, panStart, processedData >>
    /\ UNCHANGED callVars

\* Lines 200-203; the button is disabled at zoomLevel === 1 (line 448).
resetZoom ==
    /\ zoomLevel # ZoomDen
    /\ zoomLevel' = ZoomDen
    /\ panOffset' = 0
    /\ UNCHANGED << data, selectedVariations, timeRange, lineStyle, isPanning,
                    isDraggingSlider, panStart, processedData >>
    /\ UNCHANGED callVars

\* Lines 504-511: a click on the zoom track at step / (4 * ZoomDen) of its
\* width.
zoomTrackOnClick(step) ==
    /\ LET newZoomLevel == ZoomDen + step
       IN  zoomLevel' = Max2(ZoomDen, Min2(newZoomLevel, 5 * ZoomDen))
    /\ panOffset' = 0
    /\ UNCHANGED << data, selectedVariations, timeRange, lineStyle, isPanning,
                    isDraggingSlider, panStart, processedData >>
    /\ UNCHANGED callVars

\* Lines 210-215.
handleSliderMouseDown(clientX) ==
    /\ isDraggingSlider' = TRUE
    /\ isPanning' = TRUE
    /\ panStart' = clientX
    /\ UNCHANGED << data, selectedVariations, timeRange, lineStyle, zoomLevel, panOffset,
                    processedData >>
    /\ UNCHANGED callVars

\* Lines 217-223, for a target outside the zoom controls.
handleChartMouseDown(clientX) ==
    /\ zoomLevel > ZoomDen
    /\ isPanning' = TRUE
    /\ isDraggingSlider' = FALSE
    /\ panStart' = clientX
    /\ UNCHANGED << data, selectedVariations, timeRange, lineStyle, zoomLevel, panOffset,
                    processedData >>
    /\ UNCHANGED callVars

\* Mutant of handleGlobalMouseMove: the panned offset is stored without its
\* clamp to [0, maxOffset].
handleGlobalMouseMoveUnclamped(clientX, step) ==
    /\ isPanning
    /\ LET delta == panStart - clientX
       IN  IF isDraggingSlider
           THEN LET percentage == Max2(0, Min2(step, 4 * ZoomDen))
                    newZoomLevel == ZoomDen + percentage
                IN  /\ zoomLevel' = newZoomLevel
                    /\ panOffset' = 0
           ELSE IF zoomLevel > ZoomDen
           THEN LET totalPoints == Len(processedData)
                    visiblePoints == FloorDivZoom(totalPoints, zoomLevel)
                    maxOffset == Max2(0, totalPoints - visiblePoints)
                    pixelToDataRatio == DoubleQuotient(maxOffset, ChartWidth)
                    newOffset == DoubleSum(panOffset, DoubleProduct(delta, pixelToDataRatio))
                IN  /\ panOffset' = newOffset
                    /\ zoomLevel' = zoomLevel
           ELSE UNCHANGED << zoomLevel, panOffset >>
    /\ panStart' = clientX
    /\ UNCHANGED << data, selectedVariations, timeRange, lineStyle, isPanning,
                    isDraggingSlider, processedData >>
    /\ UNCHANGED callVars

\* Lines 230-256: the listener exists while isPanning.  `step` is the position
\* of the mouse along the zoom track, read by the slider branch only.
handleGlobalMouseMove(clientX, step) ==
    /\ isPanning
    /\ LET delta == panStart - clientX
       IN  IF isDraggingSlider
           THEN LET percentage == Max2(0, Min2(step, 4 * ZoomDen))
                    newZoomLevel == ZoomDen + percentage
                IN  /\ zoomLevel' = newZoomLevel
                    /\ panOffset' = 0
           ELSE IF zoomLevel > ZoomDen
           THEN LET totalPoints == Len(processedData)
                    visiblePoints == FloorDivZoom(totalPoints, zoomLevel)
                    maxOffset == Max2(0, totalPoints - visiblePoints)
                    pixelToDataRatio == DoubleQuotient(maxOffset, ChartWidth)
                    newOffset == DoubleSum(panOffset, DoubleProduct(delta, pixelToDataRatio))
                IN  /\ panOffset' = Max2(0, Min2(newOffset, maxOffset * PanOne))
                    /\ zoomLevel' = zoomLevel
           ELSE UNCHANGED << zoomLevel, panOffset >>
    /\ panStart' = clientX
    /\ UNCHANGED << data, selectedVariations, timeRange, lineStyle, isPanning,
                    isDraggingSlider, processedData >>
    /\ UNCHANGED callVars

\* Lines 258-261.
handleGlobalMouseUp ==
    /\ isPanning
    /\ isPanning' = FALSE
    /\ isDraggingSlider' = FALSE
    /\ UNCHANGED << data, selectedVariations, timeRange, lineStyle, zoomLevel, panOffset,
                    panStart, processedData >>
    /\ UNCHANGED callVars

Next ==
    \/ \E value \in VariationOptions : variationsSelectOnChange(value)
    \/ \E value \in TimeRanges : timeRangeSelectOnChange(value)
    \/ \E value \in LineStyles : lineStyleSelectOnChange(value)
    \/ handleZoomIn
    \/ handleZoomOut
    \/ resetZoom
    \/ \E step \in SliderSteps : zoomTrackOnClick(step)
    \/ \E clientX \in MouseXs : handleSliderMouseDown(clientX)
    \/ \E clientX \in MouseXs : handleChartMouseDown(clientX)
    \/ \E clientX \in MouseXs, step \in (IF isDraggingSlider THEN SliderSteps ELSE {0}) :
          handleGlobalMouseMove(clientX, step)
    \/ handleGlobalMouseUp

Spec == Init /\ [][Next]_vars

(***************************************************************************)
(* Claims about processData on short series.                               *)
(***************************************************************************)
Returned == fn = "processData" /\ ret # NoRet
Result == ret[1]
ArgSeries == args.chartData.data
CeilDiv7(n) == (n + 6) \div 7
ExpectedLen == IF args.range = "week" THEN CeilDiv7(Len(ArgSeries)) ELSE Len(ArgSeries)

\* C3 as stated: processData returns an empty sequence whenever the raw
\* series is empty or the selected-key sequence is empty, for 'day' and
\* 'week'.
C3_EmptyWheneverNoSeriesOrNoKeys ==
    (Returned /\ (ArgSeries = << >> \/ args.selected = << >>)) => Result = << >>

\* C3 amended: an empty raw series gives an empty sequence; an empty selection
\* with a non-empty series gives one point per record ('day') or per chunk of
\* 7 ('week'), each holding a date and no value.
C3_EmptySeriesEmptyResult ==
    /\ (Returned /\ ArgSeries = << >>) => Result = << >>
    /\ (Returned /\ args.selected = << >>) =>
          /\ Len(Result) = ExpectedLen
          /\ \A i \in 1..Len(Result) : DOMAIN Result[i].vals = {}

C3_Witness ==
    /\ Returned /\ args.selected = << >> /\ args.range = "week"
    /\ Len(ArgSeries) = MaxDays /\ Len(Result) = 1 /\ Result[1].vals = << >>

\* The rounding of the call site (part_000:23-24): for conversions c >= 0 and
\* visits v > 0 the value processData stores is (c / v) * 100 rounded to 2
\* decimals, i.e. a hundredth at distance at most 0.005 from 100 * c / v; it
\* is not clamped at 100.
StoredRateIsRoundedQuotient ==
    (Returned /\ args.range = "day") =>
        \A i \in 1..Len(Result) : \A k \in DOMAIN Result[i].vals :
            LET v == CountOrZero(ArgSeries[i].visits, k)
                c == CountOrZero(ArgSeries[i].conversions, k)
                d == Result[i].vals[k] * v - 10000 * c
            IN  v > 0 => (2 * d <= v /\ -2 * d <= v)

StoredRateWitness ==
    /\ Returned /\ args.range = "day" /\ Len(Result) >= 1
    /\ "0" \in DOMAIN Result[1].vals
    /\ "0" \in DOMAIN ArgSeries[1].visits /\ ArgSeries[1].visits["0"] = 3
    /\ "0" \in DOMAIN ArgSeries[1].conversions /\ ArgSeries[1].conversions["0"] = 2
    /\ Result[1].vals["0"] = 6667
    /\ \E k \in DOMAIN Result[1].vals : Result[1].vals[k] > 10000

\* C9: a key missing from visits, or with 0 visits, gives exactly 0 whatever
\* the conversions; a key missing from conversions counts 0 conversions.
C9_MissingOrZeroGivesZero ==
    (Returned /\ args.range = "day") =>
        \A i \in 1..Len(Result) : \A k \in DOMAIN Result[i].vals :
            LET rec == ArgSeries[i]
            IN  /\ (k \notin DOMAIN rec.visits) => Result[i].vals[k] = 0
                /\ (k \in DOMAIN rec.visits /\ rec.visits[k] = 0) => Result[i].vals[k] = 0
                /\ (k \notin DOMAIN rec.conversions) => Result[i].vals[k] = 0

C9_Witness ==
    /\ Returned /\ args.range = "day" /\ args.selected = << "0", "1" >>
    /\ Len(Result) >= 1
    /\ "0" \notin DOMAIN ArgSeries[1].visits
    /\ "0" \in DOMAIN ArgSeries[1].conversions /\ ArgSeries[1].conversions["0"] = MaxCount
    /\ "1" \in DOMAIN ArgSeries[1].visits /\ ArgSeries[1].visits["1"] = 0
    /\ "1" \in DOMAIN ArgSeries[1].conversions /\ ArgSeries[1].conversions["1"] > 0
    /\ Result[1].vals["0"] = 0 /\ Result[1].vals["1"] = 0


(***************************************************************************)
(* Claims about the weekly aggregation.                                    *)
(***************************************************************************)
ChunkFirst(j) == 7 * (j - 1) + 1
ChunkLast(j) == Min2(7 * j, Len(ArgSeries))

\* C6: n day-level points give ceil(n / 7) weekly points in chunk order, the
\* j-th covering days 7j-6 .. min(7j, n) (a last partial chunk included),
\* labelled by the single date of a one-day chunk and by
\* "<first> - <last>" otherwise.
C6_ChunksAndLabels ==
    (Returned /\ args.range = "week") =>
        /\ Len(Result) = CeilDiv7(Len(ArgSeries))
        /\ \A j \in 1..Len(Result) :
              Result[j].date = IF ChunkFirst(j) = ChunkLast(j)
                            THEN ArgSeries[ChunkFirst(j)].date
                            ELSE ArgSeries[ChunkFirst(j)].date \o " - "
                                 \o ArgSeries[ChunkLast(j)].date

C6_Witness ==
    /\ Returned /\ args.range = "week" /\ Len(ArgSeries) = 10
    /\ Len(Result) = 2
    /\ Result[1].date = "day1 - day7"
    /\ Result[2].date = "day8 - day10"

\* C7: every weekly value is the mean of the key's day-level values over the
\* chunk, rounded to 2 decimals (a hundredth at distance at most 0.005 from
\* the mean); it is exactly 0 when the key's counts are all zero in the chunk.
C7_WeeklyValueIsRoundedMean ==
    (Returned /\ args.range = "week") =>
        \E days \in processData(args.chartData, args.selected, "day") :
            \A j \in 1..Len(Result) : \A k \in KeySet(args.selected) :
                LET chunk == ChunkFirst(j)..ChunkLast(j)
                    m     == Cardinality(chunk)
                    total == SeqSum([i \in 1..m |-> days[ChunkFirst(j) + i - 1].vals[k]])
                    d     == Result[j].vals[k] * m - total
                IN  /\ k \in DOMAIN Result[j].vals
                    /\ 2 * d <= m /\ -2 * d <= m
                    /\ (\A i \in chunk :
                            /\ CountOrZero(ArgSeries[i].visits, k) = 0
                            /\ CountOrZero(ArgSeries[i].conversions, k) = 0)
                       => Result[j].vals[k] = 0

\* A 10-day series whose second chunk holds 25.00, 33.33, 33.33 under key "0"
\* (mean 30.5533...) and whose first chunk has no count at all under key "1".
C7_Witness ==
    /\ Returned /\ args.range = "week" /\ Len(ArgSeries) = 10
    /\ args.selected = << "0", "1" >>
    /\ \A i \in 1..7 : "1" \notin DOMAIN ArgSeries[i].visits
    /\ "1" \notin DOMAIN ArgSeries[8].visits
    /\ "1" \in DOMAIN ArgSeries[9].visits /\ "1" \in DOMAIN ArgSeries[10].visits
    /\ Len(Result) = 2
    /\ Result[1].vals["0"] = 2500 /\ Result[1].vals["1"] = 0
    /\ Result[2].vals["0"] = 3055 /\ Result[2].vals["1"] = 4445


(***************************************************************************)
(* Claims about calculateConversionRate.                                   *)
(***************************************************************************)
RateReturned == fn = "calculateConversionRate" /\ ret # NoRet

\* C8: for conversions c >= 0 and visits v > 0, calculateConversionRate(c, v)
\* returns (c / v) * 100 rounded to 2 decimal digits: a whole number of
\* hundredths, at distance at most 0.005 from 100 * c / v.
C8_RateReturnsRounded ==
    (RateReturned /\ args.visits > 0) =>
        LET scaled     == Result.num * 100
            hundredths == scaled \div Result.den
            d          == hundredths * args.visits - 10000 * args.conversions
        IN  /\ scaled % Result.den = 0 /\ Result.excess = 0
            /\ 2 * d <= args.visits /\ -2 * d <= args.visits

(***************************************************************************)
(* Claims about the view window.                                           *)
(***************************************************************************)
WindowReturned == fn = "visibleDataRange" /\ ret # NoRet
Zoomed == args.zoomLevel > ZoomDen
\* seriesLength >= zoomLevel
LenCoversZoom == args.totalPoints * ZoomDen >= args.zoomLevel
ArgMaxOffset == args.totalPoints - FloorDivZoom(args.totalPoints, args.zoomLevel)

\* C1: for seriesLength > 0, zoomLevel in (1, 5] and any panOffset,
\* 0 <= startIndex <= endIndex <= seriesLength - 1.
C1_RangeWithinSeries ==
    (WindowReturned /\ Zoomed /\ args.totalPoints > 0) =>
        /\ 0 <= Result[1]
        /\ Result[1] <= Result[2]
        /\ Result[2] <= args.totalPoints - 1

\* C5: for zoomLevel > 1 and seriesLength >= zoomLevel, panOffset <= 0 gives
\* startIndex = 0, and panOffset >= maxOffset gives startIndex = maxOffset and
\* endIndex = seriesLength - 1.
C5_PanSaturates ==
    (WindowReturned /\ Zoomed /\ LenCoversZoom) =>
        /\ args.panOffset <= 0 => Result[1] = 0
        /\ args.panOffset >= ArgMaxOffset * PanOne =>
              (Result[1] = ArgMaxOffset /\ Result[2] = args.totalPoints - 1)

\* computeVisibleRange(100, 2, 1000)
C5_Witness ==
    /\ WindowReturned
    /\ args.totalPoints = ExampleLen /\ args.zoomLevel = 2 * ZoomDen
    /\ args.panOffset = FarAway * PanOne
    /\ Result = << 50, 99 >>

\* floor(seriesLength / zoomLevel): the count c with
\* c * zoomLevel <= seriesLength < (c + 1) * zoomLevel
ArgVisibleCount ==
    CHOOSE c \in 0..args.totalPoints :
        /\ c * args.zoomLevel <= args.totalPoints * ZoomDen
        /\ args.totalPoints * ZoomDen < (c + 1) * args.zoomLevel

\* C13: for zoomLevel > 1 and seriesLength >= zoomLevel the window holds
\* exactly floor(seriesLength / zoomLevel) >= 1 points for every panOffset;
\* (100, 2, 0) gives the indices 0..49.
C13_WindowWidth ==
    (WindowReturned /\ Zoomed /\ LenCoversZoom) =>
        /\ Result[2] - Result[1] + 1 = ArgVisibleCount
        /\ ArgVisibleCount >= 1
        /\ (args.totalPoints = ExampleLen /\ args.zoomLevel = 2 * ZoomDen /\ args.panOffset = 0)
              => Result = << 0, 49 >>

\* computeVisibleRange(100, 2, 0)
C13_Witness ==
    /\ WindowReturned
    /\ args.totalPoints = ExampleLen /\ args.zoomLevel = 2 * ZoomDen
    /\ args.panOffset = 0
    /\ Result = << 0, 49 >>


(***************************************************************************)
(* Claims about the axis domain.                                           *)
(***************************************************************************)
DomainReturned == fn = "yAxisDomain" /\ ret # NoRet
ArgVisible == dataToUse(args.processedData, args.range)

\* C4: for every visible subset, selected keys and mode the domain is a pair
\* of numbers with min <= max.
C4_DomainOrdered ==
    DomainReturned => (Result[1] \in Int /\ Result[2] \in Int /\ Result[1] <= Result[2])

C4_Witness ==
    /\ DomainReturned /\ args.lineStyle = "smooth" /\ args.selected = << "0" >>
    /\ args.range = << 1, 2 >> /\ Len(args.processedData) = 3
    /\ Result[1] < 0 /\ Result[2] > 0

\* C10: with an empty visible subset or no selected key the domain is exactly
\* {0, 100} in every mode.
C10_DefaultDomain ==
    (DomainReturned /\ (ArgVisible = << >> \/ args.selected = << >>)) =>
        Result = << 0, 100000 >>

C10_Witness ==
    /\ DomainReturned /\ args.lineStyle = "smooth"
    /\ args.selected = << "0", "1" >>
    /\ Len(args.processedData) = 2 /\ args.range = << 0, -1 >>
    /\ Result = << 0, 100000 >>


ArgValues == allValues(ArgVisible, args.selected)
ArgMin == SetMin(ArgValues)
ArgMax == SetMax(ArgValues)
ArgRange == ArgMax - ArgMin
ArgSmooth == args.lineStyle = "smooth"

\* base of the padding, in hundredths: range if range > 0, else max if
\* max > 0 (else nothing: both paddings are 1).
ArgBase == IF ArgRange > 0 THEN ArgRange ELSE ArgMax
\* max(1, base * 0.1) and max(1, base * (0.2 if smooth else 0.1)), in
\* thousandths
ArgPaddingBottom == Max2(One, ArgBase)
ArgPaddingTop == Max2(One, IF ArgSmooth THEN 2 * ArgBase ELSE ArgBase)

\* C11: for a non-empty set of visible non-negative values the lower bound is
\* max(0, min - paddingBottom), never negative, in 'line' and 'area' modes and
\* max(-5, min - paddingBottom - 5), never below -5, in 'smooth' mode.
C11_LowerBoundFloor ==
    (DomainReturned /\ ArgValues # {}) =>
        IF ArgSmooth
        THEN /\ Result[1] = Max2(-5 * One, OfValue(ArgMin) - ArgPaddingBottom - 5 * One)
             /\ Result[1] >= -5 * One
        ELSE /\ Result[1] = Max2(0, OfValue(ArgMin) - ArgPaddingBottom)
             /\ Result[1] >= 0

\* 'line' mode, visible values 0.05 and 10: min - paddingBottom is negative
\* and the bound is 0.
C11_Witness ==
    /\ DomainReturned /\ args.lineStyle = "line"
    /\ ArgValues = {5, 1000}
    /\ OfValue(ArgMin) - ArgPaddingBottom < 0
    /\ Result[1] = 0

\* C12: paddingTop = max(1, base * (0.2 if smooth else 0.1)), paddingBottom =
\* max(1, base * 0.1), base = range if range > 0 else max; both are 1 when
\* range = 0 and max = 0; maxDomain = max + paddingTop; the lower bound is
\* min - paddingBottom (less 5 in 'smooth' mode) wherever its floor does not
\* bind; [10, 20, 30] in 'line' mode gives [8, 32].
C12_PaddingPolicy ==
    (DomainReturned /\ ArgValues # {}) =>
        /\ Result[2] = OfValue(ArgMax) + ArgPaddingTop
        /\ (ArgRange = 0 /\ ArgMax = 0) => (ArgPaddingTop = One /\ ArgPaddingBottom = One)
        /\ (~ArgSmooth /\ Result[1] > 0) => Result[1] = OfValue(ArgMin) - ArgPaddingBottom
        /\ (ArgSmooth /\ Result[1] > -5 * One) =>
              Result[1] = OfValue(ArgMin) - ArgPaddingBottom - 5 * One
        /\ (ArgValues = {1000, 2000, 3000} /\ args.lineStyle = "line") =>
              Result = << 8 * One, 32 * One >>

\* The visible values are 10, 20 and 30 in 'line' mode.
C12_Witness ==
    /\ DomainReturned /\ args.lineStyle = "line"
    /\ args.selected = << "0" >> /\ args.range = NullRange
    /\ ArgValues = {1000, 2000, 3000}
    /\ Result = << 8000, 32000 >>


(***************************************************************************)
(* Claims about the component.                                             *)
(***************************************************************************)

\* C2: at least one variation is selected in every state reachable by
\* variation-selector changes, granularity and line-style switches and
\* zoom / pan actions.
C2_SelectionNeverEmpty ==
    fn = "ui" => Len(selectedVariations) >= 1

\* A single variation is selected, the chart zoomed and panned, in week mode.
C2_Witness ==
    /\ fn = "ui"
    /\ selectedVariations = << "1" >>
    /\ timeRange = "week" /\ lineStyle = "smooth"
    /\ zoomLevel > ZoomDen /\ panOffset > 0

\* C14: zoomLevel stays within [1, 5] in every state reachable by zoom-in,
\* zoom-out, reset, slider-track clicks and slider-thumb drags.
C14_ZoomWithinBounds ==
    fn = "ui" => (ZoomDen <= zoomLevel /\ zoomLevel <= 5 * ZoomDen)

\* The thumb is being dragged and rests between 4.5 and 5: a level no
\* sequence of half steps from 1 reaches, from which zoom-in meets its cap.
C14_Witness ==
    /\ fn = "ui"
    /\ isPanning /\ isDraggingSlider
    /\ 2 * zoomLevel > 9 * ZoomDen /\ zoomLevel < 5 * ZoomDen

\* maxOffset of the current series and zoom level, as a double
MaxOffsetNow ==
    LET N == Len(processedData)
    IN  Max2(0, N - FloorDivZoom(N, zoomLevel)) * PanOne

\* C15 as stated: 0 <= panOffset <= maxOffset in every reachable state, for
\* the current processed-series length and zoom level.
C15_PanWithinMaxOffset ==
    fn = "ui" => (0 <= panOffset /\ panOffset <= MaxOffsetNow)

\* C15, amended: the stored panOffset is never negative, and every step that
\* stores a new panOffset (a pan drag, or a reset to 0) leaves it within
\* [0, maxOffset] of the state it produces; a step that keeps panOffset
\* (zoom-out above 1, a day / week switch) may shrink maxOffset below it.
C15_PanWithinMaxOffsetWhenStored ==
    /\ [](fn = "ui" => 0 <= panOffset)
    /\ [][(fn = "ui" /\ panOffset' # panOffset) =>
             (0 <= panOffset' /\ panOffset' <= MaxOffsetNow')]_vars

\* A chart drag has panned the zoomed series to its right end.
C15_Witness ==
    /\ fn = "ui"
    /\ isPanning /\ ~isDraggingSlider
    /\ zoomLevel > ZoomDen
    /\ panOffset > 0 /\ panOffset = MaxOffsetNow

\* C16: zoomLevel = 1 implies panOffset = 0 in every reachable state, and a
\* step stores a panOffset other than 0 only while zoomLevel > 1.
C16_NoPanAtZoomOne ==
    /\ []((fn = "ui" /\ zoomLevel = ZoomDen) => panOffset = 0)
    /\ [][(fn = "ui" /\ panOffset' # panOffset /\ panOffset' # 0) =>
             (zoomLevel > ZoomDen /\ zoomLevel' > ZoomDen)]_vars

\* A drag of the chart began while it was zoomed (handleChartMouseDown
\* requires zoomLevel > 1) and moved the mouse; the zoom level has since been
\* brought back to 1.
C16_Witness ==
    /\ fn = "ui"
    /\ isPanning /\ ~isDraggingSlider /\ panStart = ChartWidth \div 2
    /\ Len(processedData) = MaxUiDays
    /\ zoomLevel = ZoomDen /\ panOffset = 0

\* The derived values of the current state (the memos of lines 92-106, 108-177
\* and 350-369).
RangeNow == visibleDataRange(Len(processedData), zoomLevel, panOffset)
DomainNow == yAxisDomain(processedData, selectedVariations, RangeNow, lineStyle)
DisplayNow == displayData(processedData, RangeNow, selectedVariations)
DomainDataNow == dataToUse(processedData, RangeNow)
DatesOf(points) == [i \in 1..Len(points) |-> points[i].date]

\* C17: in every mode the domain encloses every displayed value of every
\* selected key, and the points the domain is computed from are the points
\* that are displayed.
C17_DomainEnclosesDisplayed ==
    fn = "ui" =>
        /\ DatesOf(DomainDataNow) = DatesOf(DisplayNow)
        /\ \A i \in 1..Len(DisplayNow) : \A k \in KeySet(selectedVariations) :
              /\ DisplayNow[i].vals[k] >= 0
              /\ DomainNow[1] <= OfValue(DisplayNow[i].vals[k])
              /\ OfValue(DisplayNow[i].vals[k]) <= DomainNow[2]

\* The chart is zoomed and panned in 'smooth' mode: the window starts after
\* the first point, ends before the last, and shows both keys.
C17_Witness ==
    /\ fn = "ui" /\ lineStyle = "smooth"
    /\ selectedVariations = << "0", "1" >>
    /\ zoomLevel > ZoomDen
    /\ RangeNow[1] > 0 /\ RangeNow[2] < Len(processedData) - 1
    /\ Len(DisplayNow) >= 2
    /\ DomainNow[1] < 0 /\ DomainNow[2] < Hundred * One

=============================================================================
